---------------------------- MODULE Spec2Model ----------------------------
(***************************************************************************)
(* A model of parse_lib.py, the helper library that extracts tables and    *)
(* cross references from the HTML rendering of the DICOM standard.         *)
(*                                                                         *)
(* Python strings are sequences of one-character strings, so that split,   *)
(* replace, strip and the regular expressions are computed on characters.  *)
(* A parsed document is a tree of nodes (elements and text), an HTML       *)
(* string is the sequence of its tags and text runs.                       *)
(***************************************************************************)
EXTENDS Integers, Sequences, FiniteSets

VARIABLES fn, pc, arg, ret, html, before, top, outs

vars == <<fn, pc, arg, ret, html, before, top, outs>>

---------------------------------------------------------------------------
(* Bounds of the model.                                                    *)

\* Children an element of a generated fragment has at most.
MaxChildren == 2
\* Dot-separated components a generated section id has after its first.
MaxComponents == 3
\* Times the driver feeds clean_html its own output.
MaxPasses == 3

---------------------------------------------------------------------------
(* Module constants, parse_lib.py lines 16-20.                             *)

BASE_DICOM_URL ==
    <<"h", "t", "t", "p", ":", "/", "/", "d", "i", "c", "o", "m", ".", "n",
      "e", "m", "a", ".", "o", "r", "g", "/", "m", "e", "d", "i", "c", "a",
      "l", "/", "d", "i", "c", "o", "m", "/", "c", "u", "r", "r", "e", "n",
      "t", "/", "o", "u", "t", "p", "u", "t", "/", "h", "t", "m", "l", "/">>

BASE_SHORT_DICOM_SECTION_URL ==
    <<"h", "t", "t", "p", ":", "/", "/", "d", "i", "c", "o", "m", ".", "n",
      "e", "m", "a", ".", "o", "r", "g", "/", "m", "e", "d", "i", "c", "a",
      "l", "/", "d", "i", "c", "o", "m", "/", "c", "u", "r", "r", "e", "n",
      "t", "/", "o", "u", "t", "p", "u", "t", "/", "c", "h", "t", "m", "l",
      "/">>

allowed_attributes == <<"href", "src", "type", "data", "colspan", "rowspan">>

---------------------------------------------------------------------------
(* String literals the functions use.                                      *)

Hash == <<"#">>
Dot == <<".">>
Slash == <<"/">>
One == <<"1">>
\* U+00A0, one character.
NBSP == <<"nbsp">>
DotHtml == <<".", "h", "t", "m", "l">>
Part03Html == <<"p", "a", "r", "t", "0", "3", ".", "h", "t", "m", "l">>
SectPrefix == <<"s", "e", "c", "t", "_">>
ChapterPrefix == <<"c", "h", "a", "p", "t", "e", "r", "_">>
ChapterWord == <<"c", "h", "a", "p", "t", "e", "r">>
Http == <<"h", "t", "t", "p">>
Ftp == <<"f", "t", "p">>
Blank == <<"_", "b", "l", "a", "n", "k">>
possible_table_suffixes ==
    << <<"I", "O", "D", " ", "M", "o", "d", "u", "l", "e", "s">>,
       <<"M", "o", "d", "u", "l", "e", " ", "A", "t", "t", "r", "i", "b", "u",
         "t", "e", "s">>,
       <<"M", "a", "c", "r", "o", " ", "A", "t", "t", "r", "i", "b", "u", "t",
         "e", "s">>,
       <<"M", "o", "d", "u", "l", "e", " ", "T", "a", "b", "l", "e">> >>
\* The characters str.isspace() holds of, which str.strip() removes. A
\* character that has no escape in a string here is written by its code
\* point: "x0b" is U+000B, "u2003" is U+2003; "nbsp" is U+00A0 as in NBSP.
Whitespace ==
    {"\t", "\n", "x0b", "\f", "\r", "x1c", "x1d", "x1e", "x1f", " ", "x85",
     "nbsp", "u1680", "u2000", "u2001", "u2002", "u2003", "u2004", "u2005",
     "u2006", "u2007", "u2008", "u2009", "u200a", "u2028", "u2029", "u202f",
     "u205f", "u3000"}

---------------------------------------------------------------------------
(* Python's str and list operations, on sequences of characters.           *)

\* The least member of a non-empty set of integers.
Least(S) == CHOOSE i \in S : \A j \in S : i <= j

\* str.startswith / a regular expression of literals matched at position 0.
StartsWith(s, p) == Len(s) >= Len(p) /\ SubSeq(s, 1, Len(p)) = p

EndsWith(s, p) ==
    Len(s) >= Len(p) /\ SubSeq(s, Len(s) - Len(p) + 1, Len(s)) = p

\* str.find, 1-based: where sub first occurs in s, 0 when it does not.
Find(s, sub) ==
    LET at == {i \in 1..(Len(s) - Len(sub) + 1) :
                   SubSeq(s, i, i + Len(sub) - 1) = sub}
    IN  IF at = {} THEN 0 ELSE Least(at)

Contains(s, sub) == Find(s, sub) # 0

\* str.split(sep): the list of the parts of s between occurrences of sep.
RECURSIVE Split(_, _)
Split(s, sep) ==
    LET i == Find(s, sep)
    IN  IF i = 0 THEN <<s>>
        ELSE <<SubSeq(s, 1, i - 1)>>
                 \o Split(SubSeq(s, i + Len(sep), Len(s)), sep)

\* sep.join(parts).
RECURSIVE Join(_, _)
Join(parts, sep) ==
    IF Len(parts) = 0 THEN <<>>
    ELSE IF Len(parts) = 1 THEN parts[1]
    ELSE parts[1] \o sep \o Join(Tail(parts), sep)

\* str.replace(old, new): every occurrence, left to right.
Replace(s, old, new) == Join(Split(s, old), new)

\* list.index(x), 1-based: 0 stands for the ValueError of a missing x.
ListIndex(list, x) ==
    LET at == {i \in 1..Len(list) : list[i] = x}
    IN  IF at = {} THEN 0 ELSE Least(at)

\* str.strip(): s without its leading and trailing whitespace.
Strip(s) ==
    LET inked == {i \in 1..Len(s) : s[i] \notin Whitespace}
    IN  IF inked = {} THEN <<>>
        ELSE SubSeq(s, Least(inked),
                    CHOOSE i \in inked : \A j \in inked : j <= i)

\* The part of s a '.' of a regular expression can run over from position 0:
\* '.' does not match a line break.
FirstLine(s) ==
    LET i == Find(s, <<"\n">>)
    IN  IF i = 0 THEN s ELSE SubSeq(s, 1, i - 1)

\* What a call gives back: a value, or the exception it raises.
Ok(v) == [ok |-> TRUE, val |-> v]
Raise == [ok |-> FALSE, val |-> <<>>]

---------------------------------------------------------------------------
(* The URL resolver, parse_lib.py lines 109-147.                           *)

\* A faulty variant, for comparison: a page token that never becomes a chapter page.
get_standard_page_keeps_sect(sect_id) ==
    LET sections == Split(sect_id, Dot)
        cutoff_index == ListIndex(sections, One)
    IN  IF cutoff_index = 0 THEN sect_id
        ELSE Join(SubSeq(sections, 1, cutoff_index - 1), Dot)

\* A faulty variant, for comparison: the id is cut after its '1' component, not before it.
get_standard_page_cut_after_one(sect_id) ==
    LET sections == Split(sect_id, Dot)
        cutoff_index == ListIndex(sections, One)
    IN  IF cutoff_index = 0 THEN sect_id
        ELSE LET cropped_section == SubSeq(sections, 1, cutoff_index)
                 section_page == Join(cropped_section, Dot)
             IN  IF Len(cropped_section) = 1
                 THEN Replace(section_page, SectPrefix, ChapterPrefix)
                 ELSE section_page

get_standard_page(sect_id) ==
    LET sections == Split(sect_id, Dot)
        cutoff_index == ListIndex(sections, One)
    IN  IF cutoff_index = 0 THEN sect_id
        ELSE LET cropped_section == SubSeq(sections, 1, cutoff_index - 1)
                 section_page == Join(cropped_section, Dot)
             IN  IF Len(cropped_section) = 1
                 THEN Replace(section_page, SectPrefix, ChapterPrefix)
                 ELSE section_page

get_short_html_location(reference_link) ==
    LET parts == Split(reference_link, Hash)
    IN  IF Len(parts) # 2 THEN Raise
        ELSE LET standard_page == parts[1]
                 section_id == parts[2]
                 chapter_with_extension ==
                     IF standard_page = <<>> THEN Part03Html
                     ELSE standard_page
                 pieces == Split(chapter_with_extension, DotHtml)
             IN  IF Len(pieces) # 2 THEN Raise
                 ELSE Ok(pieces[1] \o Slash \o get_standard_page(section_id)
                             \o DotHtml \o Hash \o section_id)

get_long_html_location(reference_link) ==
    LET parts == Split(reference_link, Hash)
    IN  IF Len(parts) # 2 THEN Raise
        ELSE LET standard_page == parts[1]
                 section_id == parts[2]
                 chapter_with_extension ==
                     IF standard_page = <<>> THEN Part03Html
                     ELSE standard_page
             IN  Ok(chapter_with_extension \o Hash \o section_id)

\* re.match(r'(.*sect_.*)|(.*chapter.*)', href)
IsShortForm(href) ==
    \/ Contains(FirstLine(href), SectPrefix)
    \/ Contains(FirstLine(href), ChapterWord)

\* base + location; the exception of the location passes through.
Prefixed(base, location) ==
    IF location.ok THEN Ok(base \o location.val) ELSE Raise

\* A faulty variant, for comparison: every reference resolved against the long-form base.
resolve_href_url_one_base(href) ==
    IF IsShortForm(href)
    THEN Prefixed(BASE_DICOM_URL, get_short_html_location(href))
    ELSE Prefixed(BASE_DICOM_URL, get_long_html_location(href))

resolve_href_url(href) ==
    IF IsShortForm(href)
    THEN Prefixed(BASE_SHORT_DICOM_SECTION_URL, get_short_html_location(href))
    ELSE Prefixed(BASE_DICOM_URL, get_long_html_location(href))

---------------------------------------------------------------------------
(* clean_table_name, parse_lib.py lines 56-60.                             *)

\* re.split(possible_table_suffixes, title)[0]: the title up to the leftmost
\* match of one of the suffixes, the whole title when none matches.
BeforeSuffix(title) ==
    LET at == {Find(title, possible_table_suffixes[k]) :
                   k \in 1..Len(possible_table_suffixes)} \ {0}
    IN  IF at = {} THEN title ELSE SubSeq(title, 1, Least(at) - 1)

\* A faulty variant, for comparison: the title cut at its suffix and not trimmed.
clean_table_name_untrimmed(name) ==
    LET parts == Split(name, NBSP)
    IN  IF Len(parts) # 3 THEN Raise ELSE Ok(BeforeSuffix(parts[3]))

clean_table_name(name) ==
    LET parts == Split(name, NBSP)
    IN  IF Len(parts) # 3 THEN Raise
        ELSE LET title == parts[3]
                 clean_title == BeforeSuffix(title)
             IN  Ok(Strip(clean_title))

---------------------------------------------------------------------------
(* The parsed document: BeautifulSoup's tree of Tag and NavigableString.   *)

Element(name, attrs, contents) ==
    [kind |-> "tag", name |-> name, attrs |-> attrs, contents |-> contents,
     text |-> <<>>]
TextNode(s) ==
    [kind |-> "text", name |-> "", attrs |-> <<>>, contents |-> <<>>,
     text |-> s]
\* A node after decompose(): detached, its fields cleared.
Decomposed ==
    [kind |-> "decomposed", name |-> "", attrs |-> <<>>, contents |-> <<>>,
     text |-> <<>>]
\* No node: the value of a local that is not bound.
None ==
    [kind |-> "none", name |-> "", attrs |-> <<>>, contents |-> <<>>,
     text |-> <<>>]
Attr(k, v) == [k |-> k, v |-> v]

Range(f) == {f[i] : i \in DOMAIN f}

\* tag.attrs: an ordered mapping, here the sequence of its items.
Keys(tag) == {tag.attrs[i].k : i \in DOMAIN tag.attrs}
HasAttr(tag, k) == k \in Keys(tag)
\* tag[k]
GetAttr(tag, k) ==
    tag.attrs[CHOOSE i \in DOMAIN tag.attrs : tag.attrs[i].k = k].v
\* tag[k] = v: in place when the key is there, else at the end.
SetAttr(tag, k, v) ==
    IF HasAttr(tag, k)
    THEN [tag EXCEPT !.attrs =
              [i \in DOMAIN tag.attrs |->
                   IF tag.attrs[i].k = k THEN Attr(k, v) ELSE tag.attrs[i]]]
    ELSE [tag EXCEPT !.attrs = Append(tag.attrs, Attr(k, v))]

\* A node is named by its path: the child indexes from the root down.
\* tag.descendants: the paths of all nodes below node, in document order.
RECURSIVE Descendants(_), DescendantsFrom(_, _)
Descendants(node) == DescendantsFrom(node, 1)
DescendantsFrom(node, i) ==
    IF i > Len(node.contents) THEN <<>>
    ELSE LET below == Descendants(node.contents[i])
         IN  <<<<i>>>> \o [j \in 1..Len(below) |-> <<i>> \o below[j]]
                 \o DescendantsFrom(node, i + 1)

\* The node at a path; a node below a decomposed one is itself decomposed.
RECURSIVE NodeAt(_, _)
NodeAt(node, path) ==
    IF path = <<>> THEN node
    ELSE IF Head(path) > Len(node.contents) THEN Decomposed
    ELSE NodeAt(node.contents[Head(path)], Tail(path))

\* The tree with the node at a path replaced; unchanged when the path leads
\* below a decomposed node.
RECURSIVE ReplaceAt(_, _, _)
ReplaceAt(node, path, new) ==
    IF path = <<>> THEN new
    ELSE IF Head(path) > Len(node.contents) THEN node
    ELSE [node EXCEPT !.contents[Head(path)] =
              ReplaceAt(node.contents[Head(path)], Tail(path), new)]

\* tag.text: the text nodes below it, concatenated.
RECURSIVE TextOf(_), TextFrom(_, _)
TextOf(node) ==
    IF node.kind = "text" THEN node.text ELSE TextFrom(node, 1)
TextFrom(node, i) ==
    IF i > Len(node.contents) THEN <<>>
    ELSE TextOf(node.contents[i]) \o TextFrom(node, i + 1)

\* tag.find_all(name) and tag.find_all(name, key=True): the descendant
\* elements of that name (having that attribute), in document order.
find_all(root, name, key) ==
    SelectSeq(Descendants(root),
              LAMBDA p : /\ NodeAt(root, p).kind = "tag"
                         /\ NodeAt(root, p).name = name
                         /\ (key = "" \/ HasAttr(NodeAt(root, p), key)))

---------------------------------------------------------------------------
(* str(tag) and BeautifulSoup(html, 'html.parser'). An HTML string is the  *)
(* sequence of its start tags, end tags, empty-element tags and text runs. *)

OpenTok(name, attrs) ==
    [t |-> "open", name |-> name, attrs |-> attrs, text |-> <<>>]
CloseTok(name) ==
    [t |-> "close", name |-> name, attrs |-> <<>>, text |-> <<>>]
VoidTok(name, attrs) ==
    [t |-> "void", name |-> name, attrs |-> attrs, text |-> <<>>]
TextTok(s) == [t |-> "text", name |-> "", attrs |-> <<>>, text |-> s]

\* The void elements of the fragments (the tree builder's empty_element_tags).
VoidTags == {"img", "br"}

\* Adjacent text runs of a string are one run.
RECURSIVE MergeText(_)
MergeText(toks) ==
    IF Len(toks) < 2 THEN toks
    ELSE IF toks[1].t = "text" /\ toks[2].t = "text"
    THEN MergeText(<<TextTok(toks[1].text \o toks[2].text)>>
                       \o SubSeq(toks, 3, Len(toks)))
    ELSE <<toks[1]>> \o MergeText(Tail(toks))

RECURSIVE Encode(_), EncodeFrom(_, _)
Encode(node) ==
    IF node.kind = "text" THEN
        IF node.text = <<>> THEN <<>> ELSE <<TextTok(node.text)>>
    ELSE IF node.kind # "tag" THEN <<>>
    ELSE IF node.name \in VoidTags /\ node.contents = <<>>
    THEN <<VoidTok(node.name, node.attrs)>>
    ELSE <<OpenTok(node.name, node.attrs)>> \o EncodeFrom(node, 1)
             \o <<CloseTok(node.name)>>
EncodeFrom(node, i) ==
    IF i > Len(node.contents) THEN <<>>
    ELSE Encode(node.contents[i]) \o EncodeFrom(node, i + 1)

\* str(tag)
Str(node) == MergeText(Encode(node))
\* str(soup): the document's children, the document itself has no tag.
StrDoc(doc) == MergeText(EncodeFrom(doc, 1))

\* The parser's stack of open elements: stack[1] is the document.
\* Add a finished node to the innermost open element; text met after text
\* joins it.
AddChild(stack, node) ==
    LET n == Len(stack)
        cur == stack[n]
        m == Len(cur.contents)
    IN  IF node.kind = "text" /\ m > 0 /\ cur.contents[m].kind = "text"
        THEN [stack EXCEPT ![n].contents[m].text = @ \o node.text]
        ELSE [stack EXCEPT ![n].contents = Append(@, node)]

\* Close the innermost open element.
PopTag(stack) ==
    AddChild(SubSeq(stack, 1, Len(stack) - 1), stack[Len(stack)])

\* _popToTag(name): close the elements down to the innermost open one of
\* that name; an end tag that matches no open element is dropped.
RECURSIVE PopDownTo(_, _)
PopDownTo(stack, depth) ==
    IF Len(stack) < depth THEN stack ELSE PopDownTo(PopTag(stack), depth)

RECURSIVE ParseTokens(_, _)
ParseTokens(toks, stack) ==
    IF toks = <<>> THEN PopDownTo(stack, 2)[1]
    ELSE LET tok == Head(toks)
             open == {i \in 2..Len(stack) : stack[i].name = tok.name}
         IN  CASE tok.t = "text" ->
                      ParseTokens(Tail(toks), AddChild(stack, TextNode(tok.text)))
               [] tok.t = "void" \/ (tok.t = "open" /\ tok.name \in VoidTags) ->
                      ParseTokens(Tail(toks),
                          AddChild(stack, Element(tok.name, tok.attrs, <<>>)))
               [] tok.t = "open" /\ tok.name \notin VoidTags ->
                      ParseTokens(Tail(toks),
                          Append(stack, Element(tok.name, tok.attrs, <<>>)))
               [] tok.t = "close" ->
                      IF open = {} THEN ParseTokens(Tail(toks), stack)
                      ELSE ParseTokens(Tail(toks),
                               PopDownTo(stack,
                                   CHOOSE i \in open : \A j \in open : j <= i))

\* BeautifulSoup(html, 'html.parser')
Parse(toks) == ParseTokens(toks, <<Element("[document]", <<>>, <<>>)>>)

---------------------------------------------------------------------------
(* The HTML sanitizer, parse_lib.py lines 75-89.                           *)

\* A faulty variant, for comparison: the filter lets target through.
clean_tag_attributes_keeps_target(tag) ==
    IF tag.kind = "text" THEN tag
    ELSE [tag EXCEPT !.attrs =
              SelectSeq(tag.attrs,
                        LAMBDA a : a.k \in Range(allowed_attributes)
                                       \cup {"target"})]

\* A faulty variant, for comparison: the filter lets id through.
clean_tag_attributes_keeps_id(tag) ==
    IF tag.kind = "text" THEN tag
    ELSE [tag EXCEPT !.attrs =
              SelectSeq(tag.attrs,
                        LAMBDA a : a.k \in Range(allowed_attributes)
                                       \cup {"id"})]

clean_tag_attributes(tag) ==
    IF tag.kind = "text" THEN tag
    ELSE [tag EXCEPT !.attrs =
              SelectSeq(tag.attrs,
                        LAMBDA a : a.k \in Range(allowed_attributes))]

\* for child in top_level_tag.descendants: clean_tag_attributes(child)
RECURSIVE CleanEach(_, _)
CleanEach(tree, paths) ==
    IF paths = <<>> THEN tree
    ELSE CleanEach(ReplaceAt(tree, Head(paths),
                       clean_tag_attributes(NodeAt(tree, Head(paths)))),
                   Tail(paths))

\* A faulty variant, for comparison: only the top-level tag is filtered.
remove_attributes_top_only(top_level_tag) ==
    IF top_level_tag.kind = "text" THEN Raise
    ELSE Ok(clean_tag_attributes(top_level_tag))

\* A NavigableString has no descendants attribute: the call raises.
remove_attributes_from_html_tags(top_level_tag) ==
    IF top_level_tag.kind = "text" THEN Raise
    ELSE Ok(CleanEach(clean_tag_attributes(top_level_tag),
                      Descendants(top_level_tag)))

\* The loop of remove_empty_children: the filter is lazy, so each anchor's
\* text is read when the loop reaches it, after the earlier ones are gone.
\* An anchor below a decomposed one is cleared: its text is '' and
\* decomposing it again changes nothing.
RECURSIVE DecomposeEmpty(_, _)
DecomposeEmpty(tree, anchors) ==
    IF anchors = <<>> THEN tree
    ELSE IF TextOf(NodeAt(tree, Head(anchors))) = <<>>
    THEN DecomposeEmpty(ReplaceAt(tree, Head(anchors), Decomposed),
                        Tail(anchors))
    ELSE DecomposeEmpty(tree, Tail(anchors))

\* The same loop with a different test: the anchors with no child at all.
RECURSIVE DecomposeChildless(_, _)
DecomposeChildless(tree, anchors) ==
    IF anchors = <<>> THEN tree
    ELSE IF NodeAt(tree, Head(anchors)).contents = <<>>
    THEN DecomposeChildless(ReplaceAt(tree, Head(anchors), Decomposed),
                            Tail(anchors))
    ELSE DecomposeChildless(tree, Tail(anchors))

\* The tree without its decomposed nodes: decompose() takes the node out of
\* its parent's contents.
RECURSIVE Detach(_), DetachFrom(_, _)
Detach(node) ==
    IF node.kind # "tag" THEN node
    ELSE [node EXCEPT !.contents = DetachFrom(node, 1)]
DetachFrom(node, i) ==
    IF i > Len(node.contents) THEN <<>>
    ELSE (IF node.contents[i].kind = "decomposed" THEN <<>>
          ELSE <<Detach(node.contents[i])>>) \o DetachFrom(node, i + 1)

\* A faulty variant, for comparison: an anchor counts as empty when it has no child.
remove_empty_children_childless(top_level_tag) ==
    Detach(DecomposeChildless(top_level_tag,
                              find_all(top_level_tag, "a", "")))

remove_empty_children(top_level_tag) ==
    Detach(DecomposeEmpty(top_level_tag, find_all(top_level_tag, "a", "")))

---------------------------------------------------------------------------
(* Resolution over a document, parse_lib.py lines 92-110 and 145-147.      *)

\* A faulty variant, for comparison: only http counts as a protocol prefix.
has_protocol_prefix_http_only(resource, url_attribute) ==
    StartsWith(GetAttr(resource, url_attribute), Http)

\* re.match(r'(http)|(ftp)', resource[url_attribute])
has_protocol_prefix(resource, url_attribute) ==
    \/ StartsWith(GetAttr(resource, url_attribute), Http)
    \/ StartsWith(GetAttr(resource, url_attribute), Ftp)

\* Lines 105-106: the two assignments, given what resolve_href_url gave.
Retarget(anchor, url) ==
    IF url.ok
    THEN Ok(SetAttr(SetAttr(anchor, "href", url.val), "target", Blank))
    ELSE Raise

update_anchor_href(anchor) ==
    IF has_protocol_prefix(anchor, "href") THEN Ok(anchor)
    ELSE Retarget(anchor, resolve_href_url(GetAttr(anchor, "href")))

resolve_resource(url_attribute, resource) ==
    IF has_protocol_prefix(resource, url_attribute) THEN resource
    ELSE SetAttr(resource, url_attribute,
                 BASE_DICOM_URL \o GetAttr(resource, url_attribute))

\* The document with the node at a path replaced by what a call returned;
\* the exception of the call passes through.
Put(doc, path, returned) ==
    IF returned.ok THEN Ok(ReplaceAt(doc, path, returned.val)) ELSE Raise

\* list(map(update_anchor_href, anchors)): the first anchor that raises
\* ends the loop.
RECURSIVE UpdateAnchors(_, _)
UpdateAnchors(doc, anchors) ==
    IF anchors = <<>> \/ ~doc.ok THEN doc
    ELSE UpdateAnchors(
             Put(doc.val, Head(anchors),
                 update_anchor_href(NodeAt(doc.val, Head(anchors)))),
             Tail(anchors))

\* list(map(partial(resolve_resource, url_attribute), resources))
RECURSIVE ResolveResources(_, _, _)
ResolveResources(doc, url_attribute, resources) ==
    IF resources = <<>> THEN doc
    ELSE ResolveResources(
             ReplaceAt(doc, Head(resources),
                 resolve_resource(url_attribute,
                                  NodeAt(doc, Head(resources)))),
             url_attribute, Tail(resources))

\* Lines 98-100: the loops over the images and the objects, and str(html),
\* reached when no anchor raised.
ResolveRest(updated, imgs, equations) ==
    IF updated.ok
    THEN Ok(StrDoc(ResolveResources(
                ResolveResources(updated.val, "src", imgs),
                "data", equations)))
    ELSE Raise

\* Lines 94-97: find the anchors, images and objects, update the anchors.
ResolveParsed(soup) ==
    ResolveRest(UpdateAnchors(Ok(soup), find_all(soup, "a", "href")),
                find_all(soup, "img", "src"),
                find_all(soup, "object", "data"))

resolve_relative_resource_urls(html_string) ==
    ResolveParsed(Parse(html_string))

---------------------------------------------------------------------------
(* table_parent_page, parse_lib.py lines 155-162. A table div is known by  *)
(* its parent, the only thing the function reads of it.                    *)

\* tag.div, tag.find('a'): the first descendant of that name, or None.
FindFirst(node, name) ==
    LET found == find_all(node, name, "")
    IN  IF found = <<>> THEN None ELSE NodeAt(node, found[1])

\* A faulty variant, for comparison: the prefix is cut after the '1' component.
table_parent_page_keeps_one(table_div) ==
    LET anchor == FindFirst(FindFirst(FindFirst(FindFirst(
                      table_div.parent, "div"), "div"), "div"), "a")
    IN  IF anchor = None \/ ~HasAttr(anchor, "id") THEN Raise
        ELSE LET parent_section_id == GetAttr(anchor, "id")
                 sections == Split(parent_section_id, Dot)
                 cutoff_index == ListIndex(sections, One)
             IN  IF cutoff_index = 0 THEN Ok(parent_section_id)
                 ELSE Ok(Join(SubSeq(sections, 1, cutoff_index), Dot))

\* A missing div or anchor is None, and so is the id of an anchor without
\* one: the attribute access on it raises.
table_parent_page(table_div) ==
    LET anchor == FindFirst(FindFirst(FindFirst(FindFirst(
                      table_div.parent, "div"), "div"), "div"), "a")
    IN  IF anchor = None \/ ~HasAttr(anchor, "id") THEN Raise
        ELSE LET parent_section_id == GetAttr(anchor, "id")
                 sections == Split(parent_section_id, Dot)
                 cutoff_index == ListIndex(sections, One)
             IN  IF cutoff_index = 0 THEN Ok(parent_section_id)
                 ELSE Ok(Join(SubSeq(sections, 1, cutoff_index - 1), Dot))

---------------------------------------------------------------------------
(* The fragments clean_html is called on.                                  *)

HrefShort == <<"#", "s", "e", "c", "t", "_", "1", "0", ".", "1", ".", "2">>
HrefNested == <<"#", "s", "e", "c", "t", "_", "C", ".", "2">>
HrefLong ==
    <<"p", "a", "r", "t", "0", "6", ".", "h", "t", "m", "l", "#", "p", "a",
      "r", "a", "_", "6">>
HrefHttp ==
    <<"h", "t", "t", "p", ":", "/", "/", "e", ".", "o", "r", "g", "/">>
HrefFtp == <<"f", "t", "p", ":", "/", "/", "e", ".", "o", "r", "g", "/", "f">>
HrefNoHash == <<"f", "i", "g", "u", "r", "e", "s", ".", "h", "t", "m", "l">>
SrcRelative == <<"f", "i", "g", "/", "a", ".", "s", "v", "g">>
SrcHttp ==
    <<"h", "t", "t", "p", "s", ":", "/", "/", "e", ".", "o", "r", "g", "/",
      "a", ".", "p", "n", "g">>
DataRelative == <<"e", "q", "/", "b", ".", "s", "v", "g">>
DataFtp ==
    <<"f", "t", "p", ":", "/", "/", "e", ".", "o", "r", "g", "/", "b", ".",
      "s", "v", "g">>
ValXref == <<"x", "r", "e", "f">>
ValId == <<"a", "1">>
ValTop == <<"_", "t", "o", "p">>
ValAlt == <<"f">>
ValType == <<"i", "m", "a", "g", "e", "/", "s", "v", "g">>
ValTwo == <<"2">>
ValLeft == <<"l", "e", "f", "t">>
ValRect == <<"r", "e", "c", "t">>
ValTable == <<"t", "a", "b", "l", "e">>
TextT == <<"t">>
TextX == <<"x">>

\* The sequences over S of at most n members.
SeqsUpTo(S, n) == UNION {[1..k -> S] : k \in 0..n}

\* What a fragment's top-level tag holds: text, anchors of every kind of
\* reference (with and without text), images and embedded objects.
Pieces ==
    { TextNode(TextT),
      Element("a", <<Attr("href", HrefShort), Attr("class", ValXref)>>,
              <<TextNode(TextX)>>),
      Element("a", <<Attr("shape", ValRect), Attr("href", HrefLong)>>,
              <<TextNode(TextX)>>),
      Element("a", <<Attr("href", HrefHttp), Attr("target", ValTop)>>,
              <<TextNode(TextX),
                Element("img", <<Attr("src", SrcHttp)>>, <<>>)>>),
      Element("a", <<Attr("id", ValId), Attr("shape", ValRect)>>, <<>>),
      Element("a", <<Attr("href", HrefNested)>>,
              <<Element("a", <<Attr("id", ValId)>>, <<>>)>>),
      Element("img", <<Attr("src", SrcRelative), Attr("alt", ValAlt)>>,
              <<>>),
      Element("object", <<Attr("data", DataRelative),
                          Attr("type", ValType)>>, <<>>),
      Element("a", <<Attr("href", HrefFtp)>>,
              <<Element("img", <<Attr("src", SrcRelative)>>, <<>>)>>),
      Element("a", <<Attr("href", HrefNoHash)>>, <<TextNode(TextX)>>),
      Element("object", <<Attr("id", ValId), Attr("data", DataFtp)>>,
              <<TextNode(TextT)>>) }

\* The attributes of the top-level tags.
TopLevelTags ==
    { <<"div", <<Attr("class", ValTable)>> >>,
      <<"td", <<Attr("colspan", ValTwo), Attr("align", ValLeft)>> >>,
      <<"a", <<Attr("href", HrefShort), Attr("id", ValId)>> >> }

Fragments ==
    {Str(Element(t[1], t[2], kids)) :
         t \in TopLevelTags, kids \in SeqsUpTo(Pieces, MaxChildren)}

\* Strings that are not one well-formed element: the empty string, text
\* before the first tag, two top-level elements, an element left open, an
\* end tag with no start tag.
OddFragments ==
    { <<>>,
      <<TextTok(TextT), OpenTok("p", <<>>), CloseTok("p")>>,
      <<OpenTok("p", <<Attr("class", ValXref)>>), TextTok(TextT),
        CloseTok("p"), OpenTok("a", <<Attr("href", HrefShort)>>),
        CloseTok("a")>>,
      <<OpenTok("div", <<>>), OpenTok("a", <<Attr("href", HrefLong)>>),
        TextTok(TextX)>>,
      <<OpenTok("p", <<>>), TextTok(TextT), CloseTok("a"),
        OpenTok("img", <<Attr("src", SrcRelative)>>), CloseTok("p")>> }

---------------------------------------------------------------------------
(* The references, section ids and table names the functions are called on.*)

\* A section id is a first component and further dot-separated ones.
FirstComponents ==
    { <<"s", "e", "c", "t", "_", "1", "0">>,
      <<"s", "e", "c", "t", "_", "C">>,
      <<"c", "h", "a", "p", "t", "e", "r", "_", "6">>,
      <<"t", "a", "b", "l", "e", "_", "A">>,
      <<"s", "e", "c", "t", "_", "s", "e", "c", "t", "_", "5">>,
      <<"1">> }

Components ==
    { <<"1">>,
      <<"2">>,
      <<"3">>,
      <<"1", "1">> }

SectionIds ==
    {Join(<<f>> \o rest, Dot) :
         f \in FirstComponents, rest \in SeqsUpTo(Components, MaxComponents)}

\* The page of a reference: none (the current page), a page, and a page
\* named without its extension.
Pages ==
    { <<>>,
      <<"p", "a", "r", "t", "1", "6", ".", "h", "t", "m", "l">>,
      <<"p", "a", "r", "t", "0", "5">> }

\* References that are not <page>#<id>: no '#', two of them, two '.html'.
OddReferences ==
    { <<"f", "i", "g", "u", "r", "e", "s", ".", "h", "t", "m", "l">>,
      <<"s", "e", "c", "t", "_", "7">>,
      <<"#", "s", "e", "c", "t", "_", "1", "#", "a">>,
      <<"a", ".", "h", "t", "m", "l", ".", "h", "t", "m", "l", "#", "s",
        "e", "c", "t", "_", "2", ".", "1">>,
      <<"a", ".", "h", "t", "m", "l", ".", "h", "t", "m", "l", "#", "t">> }

ProtocolReferences ==
    { <<"h", "t", "t", "p", ":", "/", "/", "e", ".", "o", "r", "g", "/">>,
      <<"h", "t", "t", "p", "s", ":", "/", "/", "e", ".", "o", "r", "g",
        "/", "p", ".", "h", "t", "m", "l", "#", "s", "e", "c", "t", "_",
        "1", ".", "1">>,
      <<"f", "t", "p", ":", "/", "/", "e", ".", "o", "r", "g", "/", "f">>,
      <<"f", "t", "p">> }

References ==
    {page \o Hash \o id : page \in Pages, id \in SectionIds}
        \cup OddReferences

\* References of more than one line: 'a\n#sect_1', 'x.html#a\nsect_1.1',
\* '#sect_1.1\nb', 'a\nchapter#t', 'chapter\n#t', 'p.html#t\n'.
MultiLineReferences ==
    { <<"a", "\n", "#", "s", "e", "c", "t", "_", "1">>,
      <<"x", ".", "h", "t", "m", "l", "#", "a", "\n", "s", "e", "c", "t",
        "_", "1", ".", "1">>,
      <<"#", "s", "e", "c", "t", "_", "1", ".", "1", "\n", "b">>,
      <<"a", "\n", "c", "h", "a", "p", "t", "e", "r", "#", "t">>,
      <<"c", "h", "a", "p", "t", "e", "r", "\n", "#", "t">>,
      <<"p", ".", "h", "t", "m", "l", "#", "t", "\n">> }

\* The anchors update_anchor_href is called on.
Anchors ==
    {Element("a", <<Attr("href", h)>>, <<TextNode(TextX)>>) :
         h \in References \cup ProtocolReferences
                   \cup MultiLineReferences}
    \cup
    {Element("a", <<Attr("target", ValTop), Attr("href", h)>>, <<>>) :
         h \in OddReferences \cup ProtocolReferences
                   \cup {HrefShort, HrefLong}}

\* A section of the standard: a title page of three nested divs whose
\* heading anchor carries the section id, and the table div.
Section(anchor_attrs, title_depth) ==
    LET heading == Element("h3", <<>>,
                       <<Element("a", anchor_attrs, <<>>), TextNode(TextT)>>)
        inner == IF title_depth = 3
                 THEN Element("div", <<>>, <<Element("div", <<>>, <<heading>>)>>)
                 ELSE Element("div", <<>>, <<heading>>)
    IN  Element("div", <<Attr("class", ValXref)>>,
            <<Element("div", <<Attr("class", ValTable)>>, <<inner>>),
              Element("div", <<Attr("class", ValTable)>>,
                      <<Element("a", <<Attr("id", ValId)>>, <<>>)>>)>>)

\* The table divs of the sections of the given ids.
TableDivsOf(ids) ==
    {[parent |-> Section(<<Attr("id", id), Attr("shape", ValRect)>>, 3)] :
         id \in ids}

\* The table divs: one per section id, one whose heading anchor has no id,
\* one whose title page is a div short.
TableDivs ==
    TableDivsOf(SectionIds)
    \cup {[parent |-> Section(<<Attr("shape", ValRect)>>, 3)],
          [parent |-> Section(<<Attr("id", HrefNested)>>, 2)]}

TitleLeads ==
    { <<>>,
      <<"S", "o", "m", "e", " ", "T", "i", "t", "l", "e", " ">>,
      <<" ", "C", "T", " ", "I", "m", "a", "g", "e", " ", " ">>,
      <<"x0b", "\t", "Y", "\f">>,
      <<"X">> }

TitleMiddles ==
    { <<>>,
      <<"I", "O", "D", " ", "M", "o", "d", "u", "l", "e", "s">>,
      <<"M", "o", "d", "u", "l", "e", " ", "A", "t", "t", "r", "i", "b",
        "u", "t", "e", "s">>,
      <<"M", "a", "c", "r", "o", " ", "A", "t", "t", "r", "i", "b", "u",
        "t", "e", "s">>,
      <<"M", "o", "d", "u", "l", "e", " ", "T", "a", "b", "l", "e">>,
      <<"m", "o", "d", "u", "l", "e", " ", "t", "a", "b", "l", "e">>,
      <<"M", "o", "d", "u", "l", "e", " ", " ", "T", "a", "b", "l", "e">> }

TitleEnds ==
    { <<>>,
      <<" ", "x">>,
      <<"\f", "u2003", " ">>,
      <<"M", "o", "d", "u", "l", "e", " ", "T", "a", "b", "l", "e">>,
      <<" ">> }

Titles ==
    {a \o b \o c : a \in TitleLeads, b \in TitleMiddles, c \in TitleEnds}

TableNumbers ==
    { <<"1">>,
      <<"C", ".", "7", "-", "1">> }

\* Table names of one to four parts between non-breaking spaces.
TableNames ==
    {Join(parts, NBSP) :
         parts \in {<<t>> : t \in Titles}
                   \cup (TableNumbers \X Titles)
                   \cup (TableNumbers \X {<<>>, TextX} \X Titles)
                   \cup (TableNumbers \X {<<>>} \X Titles \X {<<>>, TextX})}

---------------------------------------------------------------------------
(* The state machine. A caller picks a function and an argument (Init);    *)
(* the function runs to its return or to the exception it raises.          *)
(*   fn      the function called                                           *)
(*   pc      "call", then for clean_html the line reached ("parsed",       *)
(*           "stripped", "pruned"), then "return" or "raise"               *)
(*   arg     the argument of the call                                      *)
(*   ret     the value returned, once pc = "return"                        *)
(*   html    clean_html's parameter in the current pass                    *)
(*   top     clean_html's top_level_tag                                    *)
(*   before  the value top had before the last statement that changed it   *)
(*   outs    the strings clean_html has returned, one per pass             *)

Init ==
    /\ pc = "call"
    /\ ret = Raise
    /\ before = None
    /\ top = None
    /\ outs = <<>>
    /\ \/ fn = "clean_html" /\ arg \in Fragments \cup OddFragments
          /\ html = arg
       \/ fn = "resolve_href_url" /\ arg \in References /\ html = <<>>
       \/ fn = "update_anchor_href" /\ arg \in Anchors /\ html = <<>>
       \/ fn = "get_standard_page" /\ arg \in SectionIds /\ html = <<>>
       \/ fn = "table_parent_page" /\ arg \in TableDivs /\ html = <<>>
       \/ fn = "clean_table_name" /\ arg \in TableNames /\ html = <<>>

\* A call of a function that runs in one step.
Call(name, result) ==
    /\ fn = name
    /\ pc = "call"
    /\ pc' = IF result.ok THEN "return" ELSE "raise"
    /\ ret' = result
    /\ UNCHANGED <<fn, arg, html, before, top, outs>>

\* get_top_level_tag: next() of a document with no node raises
\* StopIteration.
get_top_level_tag(parsed_html) ==
    IF parsed_html.contents = <<>> THEN Raise
    ELSE Ok(parsed_html.contents[1])

\* A statement of clean_html that binds or changes top_level_tag.
Statement(from, to, result) ==
    /\ fn = "clean_html"
    /\ pc = from
    /\ IF result.ok
       THEN /\ pc' = to
            /\ before' = top
            /\ top' = result.val
       ELSE /\ pc' = "raise"
            /\ UNCHANGED <<before, top>>
    /\ UNCHANGED <<fn, arg, ret, html, outs>>

\* clean_html lines 64-65.
ParseHtml == Statement("call", "parsed", get_top_level_tag(Parse(html)))

\* clean_html line 66.
RemoveAttributes ==
    Statement("parsed", "stripped", remove_attributes_from_html_tags(top))

\* clean_html line 67.
RemoveEmptyChildren ==
    Statement("stripped", "pruned", Ok(remove_empty_children(top)))

\* The return of clean_html.
Return(result) ==
    /\ fn = "clean_html"
    /\ pc = "pruned"
    /\ pc' = IF result.ok THEN "return" ELSE "raise"
    /\ ret' = result
    /\ outs' = IF result.ok THEN Append(outs, result.val) ELSE outs
    /\ UNCHANGED <<fn, arg, html, before, top>>

\* clean_html line 68.
ResolveUrls == Return(resolve_relative_resource_urls(Str(top)))

\* The caller cleans the string clean_html returned once more.
CleanAgain ==
    /\ fn = "clean_html"
    /\ pc = "return"
    /\ Len(outs) < MaxPasses
    /\ pc' = "call"
    /\ html' = ret.val
    /\ UNCHANGED <<fn, arg, ret, before, top, outs>>

ResolveHrefUrl == Call("resolve_href_url", resolve_href_url(arg))

UpdateAnchorHref == Call("update_anchor_href", update_anchor_href(arg))

GetStandardPage == Call("get_standard_page", Ok(get_standard_page(arg)))

TableParentPage == Call("table_parent_page", table_parent_page(arg))

CleanTableName == Call("clean_table_name", clean_table_name(arg))

Next ==
    \/ ParseHtml
    \/ RemoveAttributes
    \/ RemoveEmptyChildren
    \/ ResolveUrls
    \/ CleanAgain
    \/ ResolveHrefUrl
    \/ UpdateAnchorHref
    \/ GetStandardPage
    \/ TableParentPage
    \/ CleanTableName

Spec == Init /\ [][Next]_vars

---------------------------------------------------------------------------
(* The properties. Each is stated on the states of the calls it is about:  *)
(* Called(f) holds once f has returned or raised.                          *)

Called(name) == fn = name /\ pc \in {"return", "raise"}

AllowList == {"href", "src", "type", "data", "colspan", "rowspan"}

\* How often sub occurs in s.
Occurrences(s, sub) ==
    Cardinality({i \in 1..(Len(s) - Len(sub) + 1) :
                     SubSeq(s, i, i + Len(sub) - 1) = sub})

HasProtocol(s) == StartsWith(s, Http) \/ StartsWith(s, Ftp)

\* The root and the descendants of a tree, as a set of paths.
Nodes(tree) == {<<>>} \cup Range(Descendants(tree))

IsEmptyAnchor(node) ==
    node.kind = "tag" /\ node.name = "a" /\ TextOf(node) = <<>>

\* The attributes and the text of the anchors with text, in document order.
AnchorsWithText(tree) ==
    LET paths == SelectSeq(find_all(tree, "a", ""),
                           LAMBDA p : TextOf(NodeAt(tree, p)) # <<>>)
    IN  [i \in 1..Len(paths) |->
             <<NodeAt(tree, paths[i]).attrs, TextOf(NodeAt(tree, paths[i]))>>]

\* An HTML string without the target attributes of its tags.
WithoutTarget(toks) ==
    [i \in 1..Len(toks) |->
         [toks[i] EXCEPT !.attrs = SelectSeq(@, LAMBDA a : a.k # "target")]]

HasTarget(toks) ==
    \E i \in 1..Len(toks) : \E j \in 1..Len(toks[i].attrs) :
        toks[i].attrs[j].k = "target"

\* The value of attribute k of a tag of an HTML string, <<>> when absent.
TokAttr(tok, k) ==
    IF \E j \in 1..Len(tok.attrs) : tok.attrs[j].k = k
    THEN tok.attrs[CHOOSE j \in 1..Len(tok.attrs) : tok.attrs[j].k = k].v
    ELSE <<>>

\* C1 as claimed: cleaning the output of clean_html again returns it as is.
C1_Idempotent ==
    fn = "clean_html" /\ Len(outs) >= 2 => outs[2] = outs[1]

\* C1, amended: cleaning the output of clean_html again returns it without
\* the target attributes the pass before gave the anchors whose href was
\* relative, so the two outputs are equal exactly when there is no such
\* anchor; from the second output on, cleaning changes nothing.
C1_IdempotentUpToTarget ==
    fn = "clean_html" =>
        /\ \A i \in 1..(Len(outs) - 1) : outs[i + 1] = WithoutTarget(outs[i])
        /\ \A i \in 2..(Len(outs) - 1) : outs[i + 1] = outs[i]
        /\ Len(outs) >= 2 => (outs[2] = outs[1] <=> ~HasTarget(outs[1]))

C1_Witness ==
    /\ fn = "clean_html"
    /\ Len(outs) = MaxPasses
    /\ HasTarget(outs[1])
    /\ outs[2] # outs[1]

\* C2 as claimed: every attribute of the string clean_html returns is in
\* the allow-list.
C2_OnlyAllowList ==
    fn = "clean_html" /\ pc = "return" =>
        \A i \in 1..Len(ret.val) : \A j \in 1..Len(ret.val[i].attrs) :
            ret.val[i].attrs[j].k \in AllowList

\* C2, amended: every attribute of the string clean_html returns is in the
\* allow-list or is the target="_blank" of an anchor whose href the
\* resolver has rewritten to one of the base URLs.
C2_AllowListOrTarget ==
    fn = "clean_html" /\ pc = "return" =>
        \A i \in 1..Len(ret.val) : \A j \in 1..Len(ret.val[i].attrs) :
            LET a == ret.val[i].attrs[j]
            IN  \/ a.k \in AllowList
                \/ /\ a.k = "target"
                   /\ a.v = Blank
                   /\ ret.val[i].name = "a"
                   /\ \/ StartsWith(TokAttr(ret.val[i], "href"),
                                    BASE_DICOM_URL)
                      \/ StartsWith(TokAttr(ret.val[i], "href"),
                                    BASE_SHORT_DICOM_SECTION_URL)

C2_Witness ==
    /\ fn = "clean_html"
    /\ pc = "return"
    /\ HasTarget(ret.val)
    /\ \E i \in 1..Len(ret.val) : ret.val[i].name = "td"

\* C3: remove_attributes_from_html_tags keeps the tree and its text nodes,
\* and leaves every element the attributes it had whose key is in the
\* allow-list, in their order and with their values, and no other.
C3_AttributesRestricted ==
    fn = "clean_html" /\ pc = "stripped" =>
        /\ Descendants(top) = Descendants(before)
        /\ \A p \in Nodes(before) :
               /\ NodeAt(top, p).kind = NodeAt(before, p).kind
               /\ NodeAt(top, p).name = NodeAt(before, p).name
               /\ NodeAt(top, p).text = NodeAt(before, p).text
               /\ NodeAt(top, p).attrs =
                      SelectSeq(NodeAt(before, p).attrs,
                                LAMBDA a : a.k \in AllowList)

C3_Witness ==
    /\ fn = "clean_html"
    /\ pc = "stripped"
    /\ \E p \in Nodes(before) :
           /\ Len(p) = 2
           /\ NodeAt(before, p).attrs = <<Attr("id", ValId)>>
           /\ NodeAt(top, p).attrs = <<>>
    /\ \E p \in Nodes(before) :
           /\ Len(p) = 1
           /\ Len(NodeAt(before, p).attrs) = 2
           /\ Len(NodeAt(top, p).attrs) = 1

\* C4 as claimed: after remove_empty_children no anchor with empty text is
\* left in the subtree, the top-level tag included, and the anchors with
\* text are all there.
C4_NoEmptyAnchor ==
    fn = "clean_html" /\ pc = "pruned" =>
        /\ \A p \in Nodes(top) : ~IsEmptyAnchor(NodeAt(top, p))
        /\ AnchorsWithText(top) = AnchorsWithText(before)

\* C4, amended: after remove_empty_children no anchor with empty text is
\* left below the top-level tag, nested ones included; the top-level tag
\* itself stays, also when it is an anchor with empty text; and the anchors
\* with text are all there.
C4_NoEmptyAnchorBelowTop ==
    fn = "clean_html" /\ pc = "pruned" =>
        /\ \A p \in Nodes(top) \ {<<>>} : ~IsEmptyAnchor(NodeAt(top, p))
        /\ top.kind = "tag"
        /\ top.name = before.name
        /\ top.attrs = before.attrs
        /\ AnchorsWithText(top) = AnchorsWithText(before)

C4_Witness ==
    /\ fn = "clean_html"
    /\ pc = "pruned"
    /\ IsEmptyAnchor(top)
    /\ \E p \in Nodes(before) :
           /\ Len(p) = 2
           /\ IsEmptyAnchor(NodeAt(before, p))
           /\ IsEmptyAnchor(NodeAt(before, SubSeq(p, 1, 1)))

\* The tags of an HTML string whose reference has a protocol prefix.
IsPrefixed(tok) ==
    \/ tok.name = "a" /\ HasProtocol(TokAttr(tok, "href"))
    \/ tok.name = "img" /\ HasProtocol(TokAttr(tok, "src"))
    \/ tok.name = "object" /\ HasProtocol(TokAttr(tok, "data"))

\* C5: resolve_relative_resource_urls returns every anchor, image and
\* object whose href, src or data starts with http or ftp as it was, and
\* update_anchor_href returns such an anchor unchanged: the reference is
\* the same and no target is added.
C5_PrefixedUnchanged ==
    /\ fn = "clean_html" /\ pc = "return" =>
           /\ Len(ret.val) = Len(Str(top))
           /\ \A i \in 1..Len(ret.val) :
                  IsPrefixed(Str(top)[i]) => ret.val[i] = Str(top)[i]
    /\ Called("update_anchor_href") /\ HasProtocol(GetAttr(arg, "href")) =>
           pc = "return" /\ ret.val = arg

C5_Witness ==
    /\ fn = "clean_html"
    /\ pc = "return"
    /\ \E i \in 1..Len(ret.val) :
           ret.val[i].name = "object" /\ IsPrefixed(ret.val[i])
    /\ \E i \in 1..Len(ret.val) :
           ret.val[i].name = "a" /\ IsPrefixed(Str(top)[i])
    /\ \E i \in 1..Len(ret.val) : ret.val[i] # Str(top)[i]

Ref_10_2_1_3 ==
    <<"#", "s", "e", "c", "t", "_", "1", "0", ".", "2", ".", "1", ".", "3">>
Sect_10_2_1_3 ==
    <<"s", "e", "c", "t", "_", "1", "0", ".", "2", ".", "1", ".", "3">>
Page_10_2 == <<"1", "0", ".", "2">>
Page_sect_10_2 == <<"s", "e", "c", "t", "_", "1", "0", ".", "2">>
Location_10_2 ==
    <<"p", "a", "r", "t", "0", "3", "/", "1", "0", ".", "2", ".", "h", "t",
      "m", "l", "#", "s", "e", "c", "t", "_", "1", "0", ".", "2", ".", "1",
      ".", "3">>
Location_sect_10_2 ==
    <<"p", "a", "r", "t", "0", "3", "/", "s", "e", "c", "t", "_", "1", "0",
      ".", "2", ".", "h", "t", "m", "l", "#", "s", "e", "c", "t", "_", "1",
      "0", ".", "2", ".", "1", ".", "3">>
Location_chapter_10 ==
    <<"p", "a", "r", "t", "0", "3", "/", "c", "h", "a", "p", "t", "e", "r",
      "_", "1", "0", ".", "h", "t", "m", "l", "#", "s", "e", "c", "t", "_",
      "1", "0", ".", "1", ".", "2">>
Part03 == <<"p", "a", "r", "t", "0", "3">>

\* C6 as claimed: the page token of sect_10.2.1.3 is 10.2, and the short
\* reference to it resolves to part03/10.2.html under the short base.
C6_Page_10_2 ==
    /\ Called("get_standard_page") /\ arg = Sect_10_2_1_3 =>
           pc = "return" /\ ret.val = Page_10_2
    /\ Called("resolve_href_url") /\ arg = Ref_10_2_1_3 =>
           /\ pc = "return"
           /\ ret.val = BASE_SHORT_DICOM_SECTION_URL \o Location_10_2

\* C6, amended: the page token of sect_10.2.1.3 is sect_10.2 (the id cut at
\* its first '1' component, the sect_ prefix kept), and the short reference
\* to it resolves to part03/sect_10.2.html under the short base.
C6_Page_sect_10_2 ==
    /\ Called("get_standard_page") /\ arg = Sect_10_2_1_3 =>
           pc = "return" /\ ret.val = Page_sect_10_2
    /\ Called("resolve_href_url") /\ arg = Ref_10_2_1_3 =>
           /\ pc = "return"
           /\ ret.val = BASE_SHORT_DICOM_SECTION_URL \o Location_sect_10_2

C6_Witness ==
    /\ fn = "resolve_href_url"
    /\ arg = Ref_10_2_1_3
    /\ pc = "return"
    /\ Len(ret.val) = Len(BASE_SHORT_DICOM_SECTION_URL)
                          + Len(Location_sect_10_2)

\* The parts of a reference with one '#': before it and after it.
PagePart(href) == SubSeq(href, 1, Find(href, Hash) - 1)
IdPart(href) == SubSeq(href, Find(href, Hash) + 1, Len(href))

MentionsSection(href) ==
    Contains(href, SectPrefix) \/ Contains(href, ChapterWord)

\* The reference is '#<id>' or '<page>.html#<id>', the page a file name.
IsPageAndId(href) ==
    /\ Occurrences(href, Hash) = 1
    /\ \/ PagePart(href) = <<>>
       \/ /\ EndsWith(PagePart(href), DotHtml)
          /\ Occurrences(PagePart(href), DotHtml) = 1

\* C7: a short-form reference <page>.html#<id> or #<id> whose id has one
\* component before its first '1' component resolves to the short base,
\* the page without .html (part03 for no page), '/', that component with
\* sect_ replaced by chapter_, and '.html#' and the id; #sect_10.1.2
\* resolves to part03/chapter_10.html#sect_10.1.2 under the short base.
C7_ChapterPage ==
    Called("resolve_href_url") =>
        /\ LET components == Split(IdPart(arg), Dot)
               chapter == IF PagePart(arg) = <<>> THEN Part03
                          ELSE SubSeq(PagePart(arg), 1,
                                      Len(PagePart(arg)) - Len(DotHtml))
           IN  /\ IsPageAndId(arg)
               /\ MentionsSection(arg)
               /\ Len(components) >= 2
               /\ components[1] # One
               /\ components[2] = One
               => /\ pc = "return"
                  /\ ret.val =
                         BASE_SHORT_DICOM_SECTION_URL \o chapter \o Slash
                             \o Replace(components[1], SectPrefix,
                                        ChapterPrefix)
                             \o DotHtml \o Hash \o IdPart(arg)
        /\ arg = HrefShort =>
               /\ pc = "return"
               /\ ret.val = BASE_SHORT_DICOM_SECTION_URL
                                \o Location_chapter_10

C7_Witness ==
    /\ fn = "resolve_href_url"
    /\ arg = HrefShort
    /\ pc = "return"
    /\ ret.val = BASE_SHORT_DICOM_SECTION_URL \o Location_chapter_10

\* What C8 says of the anchor update_anchor_href has rewritten.
ResolvedToOneBase(old, new) ==
    /\ MentionsSection(GetAttr(old, "href")) =>
           /\ StartsWith(GetAttr(new, "href"), BASE_SHORT_DICOM_SECTION_URL)
           /\ ~StartsWith(GetAttr(new, "href"), BASE_DICOM_URL)
    /\ ~MentionsSection(GetAttr(old, "href")) =>
           /\ StartsWith(GetAttr(new, "href"), BASE_DICOM_URL)
           /\ ~StartsWith(GetAttr(new, "href"), BASE_SHORT_DICOM_SECTION_URL)
    /\ EndsWith(GetAttr(new, "href"), Hash \o IdPart(GetAttr(old, "href")))
    /\ HasAttr(new, "target")
    /\ GetAttr(new, "target") = Blank

HrefSectionOnSecondLine == <<"a", "\n", "#", "s", "e", "c", "t", "_", "1">>

\* sect_ or chapter stands on the first line of the href: no line break
\* comes before the place it starts at.
OnFirstLine(href, word) ==
    \E i \in 1..Len(href) :
        /\ i + Len(word) - 1 <= Len(href)
        /\ SubSeq(href, i, i + Len(word) - 1) = word
        /\ \A k \in 1..(i - 1) : href[k] # "\n"

MentionsSectionOnFirstLine(href) ==
    OnFirstLine(href, SectPrefix) \/ OnFirstLine(href, ChapterWord)

\* A relative href of the form <page>#<id>: one '#', and when sect_ or
\* chapter stands on its first line a page part that is empty or holds
\* '.html' once.
IsReferenceLink(href) ==
    /\ Occurrences(href, Hash) = 1
    /\ MentionsSectionOnFirstLine(href) =>
           \/ PagePart(href) = <<>>
           \/ Occurrences(PagePart(href), DotHtml) = 1

\* What the amended C8 says of the anchor update_anchor_href has rewritten.
ResolvedByFirstLine(old, new) ==
    /\ MentionsSectionOnFirstLine(GetAttr(old, "href")) =>
           /\ StartsWith(GetAttr(new, "href"), BASE_SHORT_DICOM_SECTION_URL)
           /\ ~StartsWith(GetAttr(new, "href"), BASE_DICOM_URL)
    /\ ~MentionsSectionOnFirstLine(GetAttr(old, "href")) =>
           /\ StartsWith(GetAttr(new, "href"), BASE_DICOM_URL)
           /\ ~StartsWith(GetAttr(new, "href"), BASE_SHORT_DICOM_SECTION_URL)
    /\ EndsWith(GetAttr(new, "href"), Hash \o IdPart(GetAttr(old, "href")))
    /\ HasAttr(new, "target")
    /\ GetAttr(new, "target") = Blank

SomeTitle == <<"S", "o", "m", "e", " ", "T", "i", "t", "l", "e">>
SomeTitleModuleAttributes ==
    <<"S", "o", "m", "e", " ", "T", "i", "t", "l", "e", " ", "M", "o", "d",
      "u", "l", "e", " ", "A", "t", "t", "r", "i", "b", "u", "t", "e", "s">>
ExampleName == <<"1">> \o NBSP \o NBSP \o SomeTitleModuleAttributes

\* One of the table suffixes starts at position i of the title.
SuffixAt(title, i) ==
    \E k \in 1..Len(possible_table_suffixes) :
        /\ i + Len(possible_table_suffixes[k]) - 1 <= Len(title)
        /\ SubSeq(title, i, i + Len(possible_table_suffixes[k]) - 1)
               = possible_table_suffixes[k]

\* The title is cut after c characters: before its first suffix, or at its
\* end when it has none.
CutAt(title, c) ==
    /\ \A i \in 1..c : ~SuffixAt(title, i)
    /\ c = Len(title) \/ SuffixAt(title, c + 1)

\* result is s without the whitespace around it.
IsTrimmed(s, result) ==
    \E i \in 0..Len(s) : \E j \in i..Len(s) :
        /\ result = SubSeq(s, i + 1, j)
        /\ \A k \in (1..i) \cup ((j + 1)..Len(s)) : s[k] \in Whitespace
        /\ result # <<>> =>
               result[1] \notin Whitespace
                   /\ result[Len(result)] \notin Whitespace

\* C9: clean_table_name returns exactly when the name has three parts
\* between non-breaking spaces, and raises otherwise; it returns the third
\* part cut before its first table suffix (whole when it has none) and
\* trimmed: 'Some Title' for '1', '', 'Some Title Module Attributes'.
C9_ThreeParts ==
    Called("clean_table_name") =>
        LET seps == {i \in 1..Len(arg) : <<arg[i]>> = NBSP}
            title == SubSeq(arg, (CHOOSE i \in seps : \A j \in seps : j <= i)
                                     + 1, Len(arg))
        IN  /\ pc = "return" <=> Cardinality(seps) = 2
            /\ pc = "return" =>
                   \E c \in 0..Len(title) :
                       /\ CutAt(title, c)
                       /\ IsTrimmed(SubSeq(title, 1, c), ret.val)
            /\ arg = ExampleName => pc = "return" /\ ret.val = SomeTitle

C9_Witness ==
    /\ fn = "clean_table_name"
    /\ pc = "return"
    /\ arg = ExampleName
    /\ ret.val = SomeTitle

\* The components of a section id before its first '1' component, all of
\* them when it has none.
BeforeOne(components) ==
    LET ones == {i \in 1..Len(components) : components[i] = One}
    IN  IF ones = {} THEN components
        ELSE SubSeq(components, 1, Least(ones) - 1)

\* The page of a section id as C10 states it for get_standard_page.
StandardPage(components) ==
    IF One \in Range(components) /\ Len(BeforeOne(components)) = 1
    THEN Replace(Join(BeforeOne(components), Dot), SectPrefix, ChapterPrefix)
    ELSE Join(BeforeOne(components), Dot)

\* C10: table_parent_page returns the components of the section id before
\* its first '1' component, joined by dots; with no '1' component both it
\* and get_standard_page return the id as it is and do not raise; and
\* get_standard_page returns the same as table_parent_page except that it
\* replaces sect_ by chapter_ when one component precedes the '1'.
C10_TruncationFallback ==
    /\ /\ Called("table_parent_page")
       /\ HasAttr(FindFirst(arg.parent, "a"), "id")
       /\ arg.parent = Section(FindFirst(arg.parent, "a").attrs, 3)
       => LET id == GetAttr(FindFirst(arg.parent, "a"), "id")
              components == Split(id, Dot)
          IN  /\ pc = "return"
              /\ ret.val = Join(BeforeOne(components), Dot)
              /\ One \notin Range(components) => ret.val = id
              /\ get_standard_page(id) =
                     IF One \in Range(components)
                            /\ Len(BeforeOne(components)) = 1
                     THEN Replace(ret.val, SectPrefix, ChapterPrefix)
                     ELSE ret.val
    /\ Called("get_standard_page") =>
           /\ pc = "return"
           /\ ret.val = StandardPage(Split(arg, Dot))
           /\ One \notin Range(Split(arg, Dot)) => ret.val = arg

Sect_C_2_11 == <<"s", "e", "c", "t", "_", "C", ".", "2", ".", "1", "1">>

C10_Witness ==
    /\ fn = "table_parent_page"
    /\ pc = "return"
    /\ ret.val = Sect_C_2_11
    /\ GetAttr(FindFirst(arg.parent, "a"), "id") = Sect_C_2_11

=============================================================================
